---- MODULE Spec2Model ----
(***************************************************************************)
(* Feedback workflow of app.py (Streamlit dashboard "Apka o uczestnikach"). *)
(*                                                                         *)
(* Every user interaction re-executes the script from the top against the  *)
(* session's st.session_state dictionary.  A script run is modelled by the *)
(* operator script(ss, cid, widget, value): cid is the cluster predicted   *)
(* for the sidebar record (line 100), widget is the widget whose event     *)
(* triggered the run and value the text carried by a text-area event.      *)
(* st.rerun() restarts the script with no widget event.  The only part of  *)
(* a run that is split into several steps is add_note_to_db, whose count   *)
(* and upsert calls reach the Qdrant collection shared by all sessions.    *)
(***************************************************************************)
EXTENDS Naturals, Integers, Sequences, FiniteSets, TLC

\* ---------------------------------------------------------------- bounds
MaxLen == 2            \* longest comment text typed into the text area
MaxNotes == 2          \* count() above which no further persist is started
NumClusters == 2       \* cluster identifiers the classifier may return

Sessions == {1, 2}
MainSession == {1}
Clusters == 1..NumClusters
Chars == {" ", "a"}

RECURSIVE SeqsUpTo(_)
SeqsUpTo(n) ==
    IF n = 0 THEN {<<>>}
    ELSE LET shorter == SeqsUpTo(n - 1)
         IN  shorter \cup {Append(t, c) : t \in {u \in shorter : Len(u) = n - 1}, c \in Chars}

Texts == SeqsUpTo(MaxLen)

\* ------------------------------------------------- values of the program
None == "None"
Pasuje == "pasuje"
NiePasuje == "nie_pasuje"

BtnPasuje == "btn_pasuje"
BtnNiePasuje == "btn_nie_pasuje"
TextArea == "feedback_textarea"
BtnSubmit == "submit_feedback"
BtnReset == "btn_reset"
NoWidget == "sidebar"

\* ------------------------------------------------ st.session_state (dict)
Has(ss, k) == k \in DOMAIN ss
Get(ss, k, default) == IF k \in DOMAIN ss THEN ss[k] ELSE default
Put(ss, k, v) == [x \in (DOMAIN ss) \cup {k} |-> IF x = k THEN v ELSE ss[x]]
Del(ss, k) == [x \in (DOMAIN ss) \ {k} |-> ss[x]]
EmptyState == [x \in {} |-> None]

\* ------------------------------------------------------------ str.strip()
IsSpace(c) == c = " "

RECURSIVE lstrip(_)
lstrip(t) == IF t # <<>> /\ IsSpace(Head(t)) THEN lstrip(Tail(t)) ELSE t

RECURSIVE rstrip(_)
rstrip(t) ==
    IF t # <<>> /\ IsSpace(t[Len(t)]) THEN rstrip(SubSeq(t, 1, Len(t) - 1)) ELSE t

strip(t) == rstrip(lstrip(t))

\* ----------------------------------------------------------------- state
VARIABLES
    session_state,     \* session -> st.session_state dictionary
    points,            \* Qdrant collection "user_feedback": id -> payload text
    pc,                \* session -> position of the running script
    count,             \* session -> local variable count of add_note_to_db
    outcome,           \* session -> what the last script run reported
    last,              \* the step taken last: session, widget/step, cluster
    before,            \* the acting session's dictionary and the collection
                       \* as they were when the last step began
    appends_since_assignment,  \* session -> upserts since current_cluster_id last changed
    appends_since_reset        \* session -> upserts since the fields were last reset

vars == <<session_state, points, pc, count, outcome, last, before,
          appends_since_assignment, appends_since_reset>>

\* variants of the handlers, each with one plausible slip
reset_keeps_textarea(ss, new_cluster_id) ==
    IF ~Has(ss, "current_cluster_id")
    THEN Put(ss, "current_cluster_id", new_cluster_id)
    ELSE IF ss["current_cluster_id"] # new_cluster_id
    THEN Put(Put(Put(ss, "current_cluster_id", new_cluster_id),
                 "feedback_choice", None),
             "feedback_comment_submitted", FALSE)
    ELSE ss

\* lines 73-76 missing: the new cluster keeps the old answer
reset_keeps_feedback(ss, new_cluster_id) ==
    Put(ss, "current_cluster_id", new_cluster_id)

reset_on_first_assignment(ss, new_cluster_id) ==
    IF Get(ss, "current_cluster_id", 0) # new_cluster_id
    THEN Del(Put(Put(Put(ss, "current_cluster_id", new_cluster_id),
                     "feedback_choice", None),
                 "feedback_comment_submitted", FALSE),
             "feedback_textarea")
    ELSE ss

\* lines 75-76 moved out of the elif branch
reset_textarea_dedented(ss, new_cluster_id) ==
    LET changed ==
            IF ~Has(ss, "current_cluster_id")
            THEN Put(ss, "current_cluster_id", new_cluster_id)
            ELSE IF ss["current_cluster_id"] # new_cluster_id
            THEN Put(Put(Put(ss, "current_cluster_id", new_cluster_id),
                         "feedback_choice", None),
                     "feedback_comment_submitted", FALSE)
            ELSE ss
    IN  Del(changed, "feedback_textarea")

\* ------------------------------------- reset_feedback_on_cluster_change()
reset_feedback_on_cluster_change(ss, new_cluster_id) ==
    IF ~Has(ss, "current_cluster_id")
    THEN Put(ss, "current_cluster_id", new_cluster_id)
    ELSE IF ss["current_cluster_id"] # new_cluster_id
    THEN Del(Put(Put(Put(ss, "current_cluster_id", new_cluster_id),
                     "feedback_choice", None),
                 "feedback_comment_submitted", FALSE),
             "feedback_textarea")
    ELSE ss

\* lines 112-113
init_feedback_choice(ss) ==
    IF ~Has(ss, "feedback_choice") THEN Put(ss, "feedback_choice", None) ELSE ss

\* lines 135-139: the keyed text area stores its value under its key
text_area(ss, widget, value) ==
    Put(ss, "feedback_textarea",
        IF widget = TextArea THEN value ELSE Get(ss, "feedback_textarea", <<>>))

\* line 141 without .strip()
feedback_workflow_unstripped(ss, widget, value) ==
    IF ss["feedback_choice"] = None
    THEN IF widget = BtnPasuje
         THEN [ss |-> Put(ss, "feedback_choice", Pasuje), ctl |-> "rerun"]
         ELSE IF widget = BtnNiePasuje
         THEN [ss |-> Put(ss, "feedback_choice", NiePasuje), ctl |-> "rerun"]
         ELSE [ss |-> ss, ctl |-> "ok"]
    ELSE IF ss["feedback_choice"] = Pasuje
    THEN [ss |-> ss, ctl |-> "ok"]
    ELSE IF ~Get(ss, "feedback_comment_submitted", FALSE)
    THEN LET shown == text_area(ss, widget, value)
         IN  IF widget = BtnSubmit
             THEN IF shown["feedback_textarea"] # <<>>
                  THEN [ss |-> shown, ctl |-> "persist"]
                  ELSE [ss |-> shown, ctl |-> "warning"]
             ELSE [ss |-> shown, ctl |-> "ok"]
    ELSE [ss |-> ss, ctl |-> "ok"]

\* line 133 without the test of feedback_comment_submitted
feedback_workflow_unguarded(ss, widget, value) ==
    IF ss["feedback_choice"] = None
    THEN IF widget = BtnPasuje
         THEN [ss |-> Put(ss, "feedback_choice", Pasuje), ctl |-> "rerun"]
         ELSE IF widget = BtnNiePasuje
         THEN [ss |-> Put(ss, "feedback_choice", NiePasuje), ctl |-> "rerun"]
         ELSE [ss |-> ss, ctl |-> "ok"]
    ELSE IF ss["feedback_choice"] = Pasuje
    THEN [ss |-> ss, ctl |-> "ok"]
    ELSE LET shown == text_area(ss, widget, value)
         IN  IF widget = BtnSubmit
             THEN IF strip(shown["feedback_textarea"]) # <<>>
                  THEN [ss |-> shown, ctl |-> "persist"]
                  ELSE [ss |-> shown, ctl |-> "warning"]
             ELSE [ss |-> shown, ctl |-> "ok"]

\* lines 118-124 evaluated outside the test of line 116
feedback_workflow_buttons_always(ss, widget, value) ==
    IF widget = BtnPasuje
    THEN [ss |-> Put(ss, "feedback_choice", Pasuje), ctl |-> "rerun"]
    ELSE IF widget = BtnNiePasuje
    THEN [ss |-> Put(ss, "feedback_choice", NiePasuje), ctl |-> "rerun"]
    ELSE IF ss["feedback_choice"] \in {None, Pasuje}
    THEN [ss |-> ss, ctl |-> "ok"]
    ELSE IF ~Get(ss, "feedback_comment_submitted", FALSE)
    THEN LET shown == text_area(ss, widget, value)
         IN  IF widget = BtnSubmit
             THEN IF strip(shown["feedback_textarea"]) # <<>>
                  THEN [ss |-> shown, ctl |-> "persist"]
                  ELSE [ss |-> shown, ctl |-> "warning"]
             ELSE [ss |-> shown, ctl |-> "ok"]
    ELSE [ss |-> ss, ctl |-> "ok"]

\* lines 115-148: result is the dictionary and how the block ended
feedback_workflow(ss, widget, value) ==
    IF ss["feedback_choice"] = None
    THEN IF widget = BtnPasuje
         THEN [ss |-> Put(ss, "feedback_choice", Pasuje), ctl |-> "rerun"]
         ELSE IF widget = BtnNiePasuje
         THEN [ss |-> Put(ss, "feedback_choice", NiePasuje), ctl |-> "rerun"]
         ELSE [ss |-> ss, ctl |-> "ok"]
    ELSE IF ss["feedback_choice"] = Pasuje
    THEN [ss |-> ss, ctl |-> "ok"]
    ELSE IF ~Get(ss, "feedback_comment_submitted", FALSE)
    THEN LET shown == text_area(ss, widget, value)
         IN  IF widget = BtnSubmit
             THEN IF strip(shown["feedback_textarea"]) # <<>>
                  THEN [ss |-> shown, ctl |-> "persist"]
                  ELSE [ss |-> shown, ctl |-> "warning"]
             ELSE [ss |-> shown, ctl |-> "ok"]
    ELSE [ss |-> ss, ctl |-> "ok"]

reset_handler_keeps_textarea(ss, widget) ==
    IF ss["feedback_choice"] # None /\ widget = BtnReset
    THEN [ss |-> Put(Put(ss, "feedback_choice", None),
                     "feedback_comment_submitted", FALSE),
          ctl |-> "rerun"]
    ELSE [ss |-> ss, ctl |-> "ok"]

reset_handler_keeps_flag(ss, widget) ==
    IF ss["feedback_choice"] # None /\ widget = BtnReset
    THEN [ss |-> Del(Put(ss, "feedback_choice", None), "feedback_textarea"),
          ctl |-> "rerun"]
    ELSE [ss |-> ss, ctl |-> "ok"]

\* lines 150-156
reset_handler(ss, widget) ==
    IF ss["feedback_choice"] # None /\ widget = BtnReset
    THEN [ss |-> Del(Put(Put(ss, "feedback_choice", None),
                         "feedback_comment_submitted", FALSE),
                     "feedback_textarea"),
          ctl |-> "rerun"]
    ELSE [ss |-> ss, ctl |-> "ok"]

\* line 150 with the test dropped: the reset button on every page
controls_reset_always(ss) ==
    (IF ss["feedback_choice"] = None
     THEN {BtnPasuje, BtnNiePasuje}
     ELSE IF ss["feedback_choice"] = Pasuje
     THEN {}
     ELSE IF ~Get(ss, "feedback_comment_submitted", FALSE)
     THEN {TextArea, BtnSubmit}
     ELSE {})
    \cup {BtnReset}

\* lines 115-151: the input widgets a pass over the script creates for
\* the dictionary it ends with
controls(ss) ==
    (IF ss["feedback_choice"] = None
     THEN {BtnPasuje, BtnNiePasuje}
     ELSE IF ss["feedback_choice"] = Pasuje
     THEN {}
     ELSE IF ~Get(ss, "feedback_comment_submitted", FALSE)
     THEN {TextArea, BtnSubmit}
     ELSE {})
    \cup (IF ss["feedback_choice"] # None THEN {BtnReset} ELSE {})

\* lines 100-156: one execution of the script, up to st.rerun() or the
\* call of add_note_to_db
script(ss, cid, widget, value) ==
    LET top == init_feedback_choice(reset_feedback_on_cluster_change(ss, cid))
        wf == feedback_workflow(top, widget, value)
    IN  IF wf.ctl \in {"rerun", "persist"}
        THEN wf
        ELSE LET rs == reset_handler(wf.ss, widget)
             IN  IF rs.ctl = "rerun" THEN rs ELSE [ss |-> rs.ss, ctl |-> wf.ctl]

\* a script run together with the run st.rerun() starts
run(ss, cid, widget, value) ==
    LET first == script(ss, cid, widget, value)
    IN  IF first.ctl = "rerun" THEN script(first.ss, cid, NoWidget, <<>>) ELSE first

\* ------------------------------------------------------------------ Init
Init ==
    /\ session_state = [s \in Sessions |-> EmptyState]
    /\ points = [i \in {} |-> <<>>]
    /\ pc = [s \in Sessions |-> "idle"]
    /\ count = [s \in Sessions |-> 0]
    /\ outcome = [s \in Sessions |-> "ok"]
    /\ last = [session |-> 0, step |-> "start", cluster |-> 0]
    /\ before = [ss |-> EmptyState, points |-> [i \in {} |-> <<>>]]
    /\ appends_since_assignment = [s \in Sessions |-> 0]
    /\ appends_since_reset = [s \in Sessions |-> 0]

\* history counters follow the dictionary: a changed current_cluster_id
\* starts a new assignment, a cleared feedback_choice a new answer
Track(s, old, new) ==
    /\ appends_since_assignment' =
           [appends_since_assignment EXCEPT ![s] =
               IF Has(old, "current_cluster_id")
                  /\ old["current_cluster_id"] = new["current_cluster_id"]
               THEN @ ELSE 0]
    /\ appends_since_reset' =
           [appends_since_reset EXCEPT ![s] =
               IF Get(old, "feedback_choice", None) # None
                  /\ new["feedback_choice"] = None
               THEN 0 ELSE @]

Record(s, step, cid) ==
    /\ last' = [session |-> s, step |-> step, cluster |-> cid]
    /\ before' = [ss |-> session_state[s], points |-> points]

\* a run that ends without reaching add_note_to_db
Finish(s, cid, widget, r) ==
    /\ r.ctl \in {"ok", "warning"}
    /\ session_state' = [session_state EXCEPT ![s] = r.ss]
    /\ outcome' = [outcome EXCEPT ![s] = r.ctl]
    /\ Record(s, widget, cid)
    /\ Track(s, session_state[s], r.ss)
    /\ UNCHANGED <<points, pc, count>>

\* the sidebar record changes (or the page is loaded): lines 100-103
AssignCluster(s, c) ==
    /\ pc[s] = "idle"
    /\ Finish(s, c, NoWidget, run(session_state[s], c, NoWidget, <<>>))

Loaded(s) == pc[s] = "idle" /\ Has(session_state[s], "current_cluster_id")

\* "Opis pasuje do mnie" clicked: lines 118-120
ClickPasuje(s) ==
    /\ Loaded(s)
    /\ LET cid == session_state[s]["current_cluster_id"]
       IN  Finish(s, cid, BtnPasuje, run(session_state[s], cid, BtnPasuje, <<>>))

\* "Opis nie pasuje do mnie" clicked: lines 122-124
ClickNiePasuje(s) ==
    /\ Loaded(s)
    /\ LET cid == session_state[s]["current_cluster_id"]
       IN  Finish(s, cid, BtnNiePasuje, run(session_state[s], cid, BtnNiePasuje, <<>>))

\* "Zmien wybor" clicked: lines 150-156
ClickReset(s) ==
    /\ Loaded(s)
    /\ LET cid == session_state[s]["current_cluster_id"]
       IN  Finish(s, cid, BtnReset, run(session_state[s], cid, BtnReset, <<>>))

\* the text area's value changes: lines 135-139
TypeComment(s, t) ==
    /\ Loaded(s)
    /\ LET cid == session_state[s]["current_cluster_id"]
       IN  Finish(s, cid, TextArea, run(session_state[s], cid, TextArea, t))

\* ---------------------------------------------------- add_note_to_db()
\* line 42
feedback_comment(ss) == strip(Get(ss, "feedback_textarea", <<>>))

\* line 46: client.count(..., exact=True).count
client_count(pts) == Cardinality(DOMAIN pts)

PointStruct_id_is_count(cnt, text) == [id |-> cnt, text |-> text]

PointStruct_id_skips(cnt, text) == [id |-> cnt + 2, text |-> text]

\* lines 47-51: PointStruct(id=count + 1, payload={"text": feedback_comment})
PointStruct(cnt, text) == [id |-> cnt + 1, text |-> text]

\* an upsert that keeps the point already stored under the id
client_upsert_keeps_existing(pts, point) ==
    IF point.id \in DOMAIN pts THEN pts ELSE Put(pts, point.id, point.text)

\* line 52: client.upsert inserts the point or replaces the one with its id
client_upsert(pts, point) == Put(pts, point.id, point.text)

\* "Wyslij uwagi" clicked: lines 140-146 and add_note_to_db up to the
\* answer of client.count (lines 42-46)
SubmitFeedback(s) ==
    /\ Loaded(s)
    /\ LET cid == session_state[s]["current_cluster_id"]
           r == run(session_state[s], cid, BtnSubmit, <<>>)
       IN  IF r.ctl = "persist"
           THEN /\ session_state' = [session_state EXCEPT ![s] = r.ss]
                /\ IF feedback_comment(r.ss) = <<>>
                   THEN /\ pc' = [pc EXCEPT ![s] = "returned"]
                        /\ UNCHANGED count
                   ELSE /\ client_count(points) < MaxNotes
                        /\ count' = [count EXCEPT ![s] = client_count(points)]
                        /\ pc' = [pc EXCEPT ![s] = "counted"]
                /\ outcome' = [outcome EXCEPT ![s] = "running"]
                /\ Record(s, BtnSubmit, cid)
                /\ UNCHANGED <<points, appends_since_assignment, appends_since_reset>>
           ELSE Finish(s, cid, BtnSubmit, r)

\* get_qdrant_client() or client.count raises (lines 45-46): the exception
\* leaves add_note_to_db and the script
CountFails(s) ==
    /\ Loaded(s)
    /\ LET cid == session_state[s]["current_cluster_id"]
           r == run(session_state[s], cid, BtnSubmit, <<>>)
       IN  /\ r.ctl = "persist"
           /\ feedback_comment(r.ss) # <<>>
           /\ session_state' = [session_state EXCEPT ![s] = r.ss]
           /\ outcome' = [outcome EXCEPT ![s] = "exception"]
           /\ Record(s, "count_fails", cid)
    /\ UNCHANGED <<points, pc, count, appends_since_assignment, appends_since_reset>>

\* lines 47-52
Upsert(s) ==
    /\ pc[s] = "counted"
    /\ points' = client_upsert(points,
                     PointStruct(count[s], feedback_comment(session_state[s])))
    /\ pc' = [pc EXCEPT ![s] = "returned"]
    /\ appends_since_assignment' = [appends_since_assignment EXCEPT ![s] = @ + 1]
    /\ appends_since_reset' = [appends_since_reset EXCEPT ![s] = @ + 1]
    /\ Record(s, "upsert", session_state[s]["current_cluster_id"])
    /\ UNCHANGED <<session_state, count, outcome>>

\* the exception of line 52 caught around add_note_to_db
UpsertFails_swallowed(s) ==
    /\ pc[s] = "counted"
    /\ pc' = [pc EXCEPT ![s] = "returned"]
    /\ outcome' = [outcome EXCEPT ![s] = "exception"]
    /\ Record(s, "upsert_fails", session_state[s]["current_cluster_id"])
    /\ UNCHANGED <<session_state, points, count,
                   appends_since_assignment, appends_since_reset>>

\* client.upsert raises (line 52)
UpsertFails(s) ==
    /\ pc[s] = "counted"
    /\ pc' = [pc EXCEPT ![s] = "idle"]
    /\ outcome' = [outcome EXCEPT ![s] = "exception"]
    /\ Record(s, "upsert_fails", session_state[s]["current_cluster_id"])
    /\ count' = [count EXCEPT ![s] = 0]
    /\ UNCHANGED <<session_state, points,
                   appends_since_assignment, appends_since_reset>>

mark_submitted_forgotten(ss) == ss

\* lines 143-144: the flag is set after add_note_to_db has returned, then
\* st.rerun() runs the script again
mark_submitted(ss) == Put(ss, "feedback_comment_submitted", TRUE)

SetSubmitted(s) ==
    /\ pc[s] = "returned"
    /\ LET cid == session_state[s]["current_cluster_id"]
           r == script(mark_submitted(session_state[s]), cid, NoWidget, <<>>)
       IN  /\ session_state' = [session_state EXCEPT ![s] = r.ss]
           /\ outcome' = [outcome EXCEPT ![s] = r.ctl]
           /\ Record(s, "set_submitted", cid)
           /\ Track(s, session_state[s], r.ss)
    /\ pc' = [pc EXCEPT ![s] = "idle"]
    /\ count' = [count EXCEPT ![s] = 0]
    /\ UNCHANGED points

\* ------------------------------------------------------------------ Next
Step(s) ==
    \/ \E c \in Clusters : AssignCluster(s, c)
    \/ ClickPasuje(s)
    \/ ClickNiePasuje(s)
    \/ \E t \in Texts : TypeComment(s, t)
    \/ SubmitFeedback(s)
    \/ CountFails(s)
    \/ Upsert(s)
    \/ UpsertFails(s)
    \/ SetSubmitted(s)
    \/ ClickReset(s)

Next == \E s \in MainSession : Step(s)

Spec == Init /\ [][Next]_vars

\* Two sessions against the one collection (lines 27-39: the client is a
\* cached resource shared by all sessions).  Each session stays on one
\* cluster and types its own comment, told apart by its length.
RaceCluster == 1
RaceText(s) == [i \in 1..s |-> "a"]

RaceStep(s) ==
    \/ AssignCluster(s, RaceCluster)
    \/ ClickNiePasuje(s)
    \/ TypeComment(s, RaceText(s))
    \/ SubmitFeedback(s)
    \/ CountFails(s)
    \/ Upsert(s)
    \/ UpsertFails(s)
    \/ SetSubmitted(s)
    \/ ClickReset(s)

NextRace == \E s \in Sessions : RaceStep(s)

SpecRace == Init /\ [][NextRace]_vars

TypeOK ==
    /\ \A s \in Sessions :
          /\ DOMAIN session_state[s] \subseteq
                {"current_cluster_id", "feedback_choice",
                 "feedback_comment_submitted", "feedback_textarea"}
          /\ pc[s] \in {"idle", "counted", "returned"}
          /\ count[s] \in 0..MaxNotes
    /\ DOMAIN points \subseteq 1..(MaxNotes + 1)

\* ------------------------------------------------------------ properties
choice(ss) == Get(ss, "feedback_choice", None)
submitted(ss) == Get(ss, "feedback_comment_submitted", FALSE)
has_text(ss) == Has(ss, "feedback_textarea")
text(ss) == Get(ss, "feedback_textarea", <<>>)

\* the last step was the whole run of session s triggered by widget
Ran(s, widget) == last.session = s /\ last.step = widget /\ pc[s] = "idle"

\* the last step assigned a cluster different from the one held before
ClusterChanged(s) ==
    /\ Ran(s, NoWidget)
    /\ Has(before.ss, "current_cluster_id")
    /\ before.ss["current_cluster_id"] # last.cluster

\* C1 (change-resets): a cluster assignment with an identifier different
\* from the current one sets current_cluster_id to the new identifier,
\* feedback_choice to None, feedback_comment_submitted to False and removes
\* the comment text, whatever the feedback fields held before.
C1_ChangeResets ==
    \A s \in Sessions :
        ClusterChanged(s) =>
            /\ session_state[s]["current_cluster_id"] = last.cluster
            /\ choice(session_state[s]) = None
            /\ submitted(session_state[s]) = FALSE
            /\ ~has_text(session_state[s])

\* a cluster change hit a comment that was typed but not submitted
C1_Witness ==
    \E s \in Sessions :
        /\ ClusterChanged(s)
        /\ choice(before.ss) = NiePasuje
        /\ ~submitted(before.ss)
        /\ strip(text(before.ss)) # <<>>

\* C2: feedback_comment_submitted is true only if feedback_choice is
\* "nie_pasuje", in every state including those inside a script run.
C2_SubmittedOnlyWhenDisagreed ==
    \A s \in Sessions :
        submitted(session_state[s]) => choice(session_state[s]) = NiePasuje

C2_Witness ==
    \E s \in Sessions :
        /\ Ran(s, "set_submitted")
        /\ submitted(session_state[s])
        /\ ~submitted(before.ss)

\* C3: the comment text (key feedback_textarea) is present only if
\* feedback_choice is "nie_pasuje" and feedback_comment_submitted is false.
\* Lines 142-144 set the flag and leave the key in the dictionary.
C3_TextOnlyWhileComposing ==
    \A s \in Sessions :
        has_text(session_state[s]) =>
            /\ choice(session_state[s]) = NiePasuje
            /\ ~submitted(session_state[s])

\* C4 as claimed: while current_cluster_id keeps its value the note store's
\* append is performed at most once.  The explicit reset (lines 150-156)
\* clears the flag without changing the cluster, and a second comment is
\* then persisted for the same assignment.
C4_OncePerAssignment ==
    \A s \in Sessions : appends_since_assignment[s] <= 1

\* C4 as amended: while current_cluster_id keeps its value and no explicit
\* reset happens, the append is performed at most once; once the flag is
\* set nothing is persisted until the fields are reset.
C4_OncePerAnswer ==
    \A s \in Sessions :
        /\ appends_since_reset[s] <= 1
        /\ submitted(session_state[s]) => appends_since_reset[s] = 1

\* a second comment persisted for the same assignment after a reset
C4_Witness ==
    \E s \in Sessions :
        /\ appends_since_assignment[s] = 2
        /\ appends_since_reset[s] = 1
        /\ submitted(session_state[s])

\* C5 (first assignment): from the empty dictionary the first cluster
\* assignment C only sets current_cluster_id to C; the reset fields are not
\* touched (their keys stay missing, feedback_choice gets its initial None
\* from lines 112-113), so feedback_choice is absent and the flag reads False.
C5_FirstAssignment ==
    \A s \in Sessions :
        (Ran(s, NoWidget) /\ DOMAIN before.ss = {}) =>
            /\ DOMAIN session_state[s] = {"current_cluster_id", "feedback_choice"}
            /\ session_state[s]["current_cluster_id"] = last.cluster
            /\ session_state[s]["feedback_choice"] = None
            /\ submitted(session_state[s]) = FALSE

C5_Witness ==
    \E s \in Sessions :
        /\ Ran(s, NoWidget)
        /\ DOMAIN before.ss = {}
        /\ session_state[s]["current_cluster_id"] = NumClusters

\* C6 (no-change-preserves): a cluster assignment whose identifier equals
\* current_cluster_id leaves current_cluster_id, feedback_choice,
\* feedback_comment_submitted and the comment text unchanged.
C6_NoChangePreserves ==
    \A s \in Sessions :
        (/\ Ran(s, NoWidget)
         /\ Has(before.ss, "current_cluster_id")
         /\ before.ss["current_cluster_id"] = last.cluster) =>
            session_state[s] = before.ss

\* the same cluster is assigned again while a comment is being composed
C6_Witness ==
    \E s \in Sessions :
        /\ Ran(s, NoWidget)
        /\ Has(before.ss, "current_cluster_id")
        /\ before.ss["current_cluster_id"] = last.cluster
        /\ choice(session_state[s]) = NiePasuje
        /\ text(session_state[s]) # <<>>

\* C7 (explicit reset): with feedback_choice not absent, the reset event sets
\* feedback_choice to None and feedback_comment_submitted to False, discards
\* the comment text and leaves current_cluster_id and the note store unchanged.
C7_ExplicitReset ==
    \A s \in Sessions :
        (Ran(s, BtnReset) /\ choice(before.ss) # None) =>
            /\ choice(session_state[s]) = None
            /\ submitted(session_state[s]) = FALSE
            /\ ~has_text(session_state[s])
            /\ session_state[s]["current_cluster_id"] = before.ss["current_cluster_id"]
            /\ points = before.points

\* a reset out of Disagreed(comment submitted)
C7_Witness ==
    \E s \in Sessions :
        /\ Ran(s, BtnReset)
        /\ choice(before.ss) = NiePasuje
        /\ submitted(before.ss)
        /\ has_text(before.ss)
        /\ points # <<>>

\* the last step was a click on "Wyslij uwagi" by session s
SubmitClicked(s) == last.session = s /\ last.step = BtnSubmit

\* C8 (empty-comment rejection): a submission whose text is empty or only
\* whitespace never sets feedback_comment_submitted, never reaches the note
\* store's count or upsert and changes nothing in the dictionary; where the
\* submit button is shown the run ends with the validation warning.
C8_EmptyCommentRejected ==
    \A s \in Sessions :
        (SubmitClicked(s) /\ strip(text(before.ss)) = <<>>) =>
            /\ pc[s] = "idle"
            /\ session_state[s] = before.ss
            /\ ~submitted(session_state[s])
            /\ points = before.points
            /\ outcome[s] \in {"ok", "warning"}
            /\ (choice(before.ss) = NiePasuje => outcome[s] = "warning")

\* a whitespace-only comment was submitted
C8_Witness ==
    \E s \in Sessions :
        /\ SubmitClicked(s)
        /\ text(before.ss) # <<>>
        /\ strip(text(before.ss)) = <<>>
        /\ outcome[s] = "warning"

\* C9 (submission guard): a submission arriving while feedback_choice is
\* not "nie_pasuje", or while feedback_comment_submitted is already true,
\* changes neither the dictionary nor the note store.
C9_SubmissionGuard ==
    \A s \in Sessions :
        (SubmitClicked(s)
         /\ (choice(before.ss) # NiePasuje \/ submitted(before.ss))) =>
            /\ pc[s] = "idle"
            /\ session_state[s] = before.ss
            /\ points = before.points
            /\ outcome[s] = "ok"

\* a second click on submit after the comment was persisted
C9_Witness ==
    \E s \in Sessions :
        /\ SubmitClicked(s)
        /\ submitted(before.ss)
        /\ strip(text(before.ss)) # <<>>

\* Disagreed(no comment) with a comment that is not blank
Composing(ss) ==
    /\ choice(ss) = NiePasuje
    /\ ~submitted(ss)
    /\ strip(text(ss)) # <<>>

\* C10 (successful persist): a submission in Disagreed(no comment) with
\* non-blank text reads count(), performs exactly one upsert whose text is
\* the stripped comment and whose id is that count + 1, and only after the
\* upsert sets feedback_comment_submitted; feedback_choice and
\* current_cluster_id keep their values.
C10_PersistStep ==
    \A s \in Sessions :
        /\ (SubmitClicked(s) /\ Composing(before.ss)) =>
              /\ pc[s] = "counted"
              /\ count[s] = Cardinality(DOMAIN points)
              /\ points = before.points
              /\ session_state[s] = before.ss
        /\ pc[s] = "counted" => Composing(session_state[s])
        /\ (last.session = s /\ last.step = "upsert") =>
              /\ pc[s] = "returned"
              /\ DOMAIN points = DOMAIN before.points \cup {count[s] + 1}
              /\ points[count[s] + 1] = strip(before.ss["feedback_textarea"])
              /\ \A i \in DOMAIN before.points \ {count[s] + 1} :
                    points[i] = before.points[i]
              /\ session_state[s] = before.ss
              /\ Composing(session_state[s])
              /\ appends_since_reset[s] = 1
        /\ Ran(s, "set_submitted") =>
              /\ session_state[s] =
                    Put(before.ss, "feedback_comment_submitted", TRUE)
              /\ ~submitted(before.ss)
              /\ points = before.points
              /\ appends_since_reset[s] = 1
              /\ Cardinality(DOMAIN points) >= 1

\* the second note was stored under id 2 with its surrounding blanks removed
C10_Witness ==
    \E s \in Sessions :
        /\ Ran(s, "set_submitted")
        /\ DOMAIN points = {1, 2}
        /\ text(session_state[s]) = <<" ", "a">>
        /\ points[2] = <<"a">>

\* the last step was an upsert by session s under an id already stored
Collided(s) ==
    /\ last.session = s
    /\ last.step = "upsert"
    /\ count[s] + 1 \in DOMAIN before.points

\* C11 (known id race): a session whose count() was read before another
\* session's upsert appends under the id the other one used; the upsert
\* replaces that note, the collection does not grow, no error is reported
\* and the session goes on to set feedback_comment_submitted.  The witness
\* is the interleaving in which both sessions read the same count and both
\* end with the flag set while one note is stored.
C11_SilentIdCollision ==
    \A s \in Sessions :
        Collided(s) =>
            /\ count[s] < client_count(before.points)
            /\ DOMAIN points = DOMAIN before.points
            /\ points[count[s] + 1] = feedback_comment(session_state[s])
            /\ before.points[count[s] + 1] # points[count[s] + 1]
            /\ pc[s] = "returned"
            /\ outcome[s] # "exception"

C11_Witness ==
    /\ \A s \in Sessions :
          /\ pc[s] = "idle"
          /\ submitted(session_state[s])
          /\ appends_since_reset[s] = 1
          /\ outcome[s] = "ok"
    /\ DOMAIN points = {1}
    /\ points[1] \in {RaceText(s) : s \in Sessions}

\* the last step was taken by session s
Acted(s) == last.session = s

\* C12 (choice guard): the two choice buttons take effect only while
\* feedback_choice is None, so no step takes feedback_choice from "pasuje"
\* to "nie_pasuje" or back; it gets from one to the other only through None.
C12_ChoiceGuard ==
    \A s \in Sessions :
        /\ Acted(s) =>
              /\ ~(choice(before.ss) = Pasuje /\ choice(session_state[s]) = NiePasuje)
              /\ ~(choice(before.ss) = NiePasuje /\ choice(session_state[s]) = Pasuje)
        /\ (Ran(s, BtnPasuje) \/ Ran(s, BtnNiePasuje)) =>
              IF choice(before.ss) = None
              THEN choice(session_state[s]) =
                       (IF last.step = BtnPasuje THEN Pasuje ELSE NiePasuje)
              ELSE session_state[s] = before.ss

\* "Opis pasuje do mnie" arrived while the choice was "nie_pasuje"
C12_Witness ==
    \E s \in Sessions :
        /\ Ran(s, BtnPasuje)
        /\ choice(before.ss) = NiePasuje
        /\ choice(session_state[s]) = NiePasuje

\* Agreed, or Disagreed(comment submitted)
Terminal(ss) == choice(ss) = Pasuje \/ submitted(ss)

\* C13 as claimed: from Agreed or Disagreed(comment submitted) no event
\* other than the explicit reset changes feedback_choice or
\* feedback_comment_submitted.  A cluster assignment with a new identifier
\* does (lines 71-74).
C13_StableUntilReset ==
    \A s \in Sessions :
        (Acted(s) /\ Terminal(before.ss) /\ last.step # BtnReset) =>
            /\ choice(session_state[s]) = choice(before.ss)
            /\ submitted(session_state[s]) = submitted(before.ss)

\* C13 as amended: from Agreed or Disagreed(comment submitted) no event
\* other than the explicit reset and the assignment of a different cluster
\* changes feedback_choice or feedback_comment_submitted.
C13_StableUntilResetOrChange ==
    \A s \in Sessions :
        (/\ Acted(s)
         /\ Terminal(before.ss)
         /\ last.step # BtnReset
         /\ ~ClusterChanged(s)) =>
            /\ choice(session_state[s]) = choice(before.ss)
            /\ submitted(session_state[s]) = submitted(before.ss)

\* a choice button arrived in Agreed and left it as it was
C13_Witness ==
    \E s \in Sessions :
        /\ Ran(s, BtnNiePasuje)
        /\ choice(before.ss) = Pasuje
        /\ choice(session_state[s]) = Pasuje

PersistFailed(s) ==
    /\ Acted(s)
    /\ last.step \in {"count_fails", "upsert_fails"}

\* C15 (persistence failure): when count or upsert raises during a
\* submission, the exception ends the run, feedback_comment_submitted stays
\* false, feedback_choice stays "nie_pasuje" and the comment text is kept,
\* so the session is again in the state in which the submission is accepted;
\* and the flag is never set while a run has ended with an exception.
C15_FailureKeepsComposing ==
    \A s \in Sessions :
        /\ PersistFailed(s) =>
              /\ outcome[s] = "exception"
              /\ pc[s] = "idle"
              /\ session_state[s] = before.ss
              /\ Composing(session_state[s])
              /\ BtnSubmit \in controls(session_state[s])
        /\ outcome[s] = "exception" =>
              (pc[s] = "idle" /\ ~submitted(session_state[s]))

\* the upsert raised after count had been read
C15_Witness ==
    \E s \in Sessions :
        /\ PersistFailed(s)
        /\ last.step = "upsert_fails"
        /\ text(session_state[s]) = <<"a", " ">>

\* C16 (no stale cluster): after every step of a session its
\* current_cluster_id is the cluster predicted for the run; the key, once
\* set, stays; a step that changes current_cluster_id leaves feedback_choice
\* None, and a step that sets feedback_choice leaves current_cluster_id as
\* it was, so a feedback_choice that is not None was always chosen under
\* the present current_cluster_id.
C16_NoStaleCluster ==
    \A s \in Sessions :
        /\ Acted(s) =>
              /\ Has(session_state[s], "current_cluster_id")
              /\ session_state[s]["current_cluster_id"] = last.cluster
              /\ (\/ ~Has(before.ss, "current_cluster_id")
                  \/ before.ss["current_cluster_id"] # last.cluster) =>
                     choice(session_state[s]) = None
              /\ (choice(session_state[s]) # None
                  /\ choice(before.ss) # choice(session_state[s])) =>
                     /\ Has(before.ss, "current_cluster_id")
                     /\ before.ss["current_cluster_id"] = last.cluster
        /\ choice(session_state[s]) # None =>
              Has(session_state[s], "current_cluster_id")

\* the cluster changed under Disagreed(comment submitted)
C16_Witness ==
    \E s \in Sessions :
        /\ ClusterChanged(s)
        /\ submitted(before.ss)
        /\ session_state[s]["current_cluster_id"] = NumClusters

\* the last step was an upsert of session s with no other session's upsert
\* between its count and its upsert
UpsertedAlone(s) ==
    /\ Acted(s)
    /\ last.step = "upsert"
    /\ count[s] = client_count(before.points)

\* C17 (id sequence): the stored ids are exactly 1..count() in every state
\* under every interleaving of the sessions, no step makes count() smaller,
\* and an upsert whose count was not overtaken by another session adds one
\* note under a new id and replaces none.
C17_IdSequence ==
    /\ DOMAIN points = 1..client_count(points)
    /\ client_count(points) >= client_count(before.points)
    /\ \A s \in Sessions :
          UpsertedAlone(s) =>
              /\ count[s] + 1 \notin DOMAIN before.points
              /\ client_count(points) = client_count(before.points) + 1
              /\ \A i \in DOMAIN before.points : points[i] = before.points[i]

\* both sessions have stored a note, one after the other
C17_Witness ==
    /\ client_count(points) = 2
    /\ points[1] # points[2]
    /\ \E s \in Sessions : UpsertedAlone(s) /\ last.session = 2

====
